---------------------------- MODULE Spec2Model ----------------------------
(***************************************************************************)
(* A model of package seaweed (src/seaweed/seaweed.go): the opaque         *)
(* filename codec (Filename / decodeFilename / NewResult) and the request  *)
(* flows Assign, Upload, Get and Delete against a seaweed master and its   *)
(* volume servers.                                                         *)
(*                                                                         *)
(* Strings that the code inspects byte by byte (fids, filenames) are       *)
(* sequences of byte values; host:port addresses are TLA+ strings.         *)
(***************************************************************************)
EXTENDS Integers, Sequences, FiniteSets, TLC

(***************************************************************************)
(* Bounds of the model.                                                    *)
(***************************************************************************)
\* longest fid (in bytes) the codec specification encodes
MaxKeyLen == 3
\* longest raw filename (in characters) the codec specification decodes
MaxRawLen == 4
\* number of callers that may be inside a call at the same time (SpecConc)
NumCallers == 2
\* number of states of the process-wide random source
RngStates == 2

(***************************************************************************)
(* Byte values the code names or that base64.URLEncoding treats specially. *)
(***************************************************************************)
chDot == 46
chComma == 44
chPad == 61
chLF == 10
chCR == 13
noChar == 255

(***************************************************************************)
(* HTTP status codes used by the code.                                     *)
(***************************************************************************)
StatusOK == 200
StatusCreated == 201
StatusAccepted == 202
StatusNotFound == 404

(***************************************************************************)
(* Sequence helpers.                                                       *)
(***************************************************************************)
RECURSIVE SeqsUpTo(_, _)
SeqsUpTo(S, n) ==
    IF n = 0 THEN {<<>>}
    ELSE LET shorter == SeqsUpTo(S, n - 1)
         IN  shorter \cup {Append(s, x) : s \in {t \in shorter : Len(t) = n - 1}, x \in S}

\* index of the first occurrence of c in s, or Len(s) + 1
RECURSIVE IndexFrom(_, _, _)
IndexFrom(s, c, i) ==
    IF i > Len(s) THEN Len(s) + 1
    ELSE IF s[i] = c THEN i
    ELSE IndexFrom(s, c, i + 1)

\* strings.Split(s, sep)[0]: everything before the first sep (all of s if none)
SplitFirst(s, sep) == SubSeq(s, 1, IndexFrom(s, sep, 1) - 1)

(***************************************************************************)
(* encoder = base64.URLEncoding: the URL-safe alphabet with '=' padding.   *)
(***************************************************************************)
\* the alphabet: A-Z a-z 0-9 - _
encodeChar(i) ==
    IF i < 26 THEN 65 + i
    ELSE IF i < 52 THEN 97 + (i - 26)
    ELSE IF i < 62 THEN 48 + (i - 52)
    ELSE IF i = 62 THEN 45
    ELSE 95

\* the decoder's reverse map: the 6-bit value of c, or noChar (0xff)
decodeMap(c) ==
    IF c >= 65 /\ c <= 90 THEN c - 65
    ELSE IF c >= 97 /\ c <= 122 THEN c - 97 + 26
    ELSE IF c >= 48 /\ c <= 57 THEN c - 48 + 52
    ELSE IF c = 45 THEN 62
    ELSE IF c = 95 THEN 63
    ELSE noChar

\* the unpadded variant named in the source's todo (base64.RawURLEncoding)
RECURSIVE RawEncodeToString(_)
RawEncodeToString(src) ==
    IF Len(src) = 0 THEN <<>>
    ELSE IF Len(src) = 1 THEN
        LET val == src[1] * 65536
        IN  <<encodeChar(val \div 262144), encodeChar((val \div 4096) % 64)>>
    ELSE IF Len(src) = 2 THEN
        LET val == src[1] * 65536 + src[2] * 256
        IN  <<encodeChar(val \div 262144), encodeChar((val \div 4096) % 64),
              encodeChar((val \div 64) % 64)>>
    ELSE
        LET val == src[1] * 65536 + src[2] * 256 + src[3]
        IN  <<encodeChar(val \div 262144), encodeChar((val \div 4096) % 64),
              encodeChar((val \div 64) % 64), encodeChar(val % 64)>>
            \o RawEncodeToString(SubSeq(src, 4, Len(src)))

\* encoder.EncodeToString: 3 bytes -> 4 characters, the last group padded
RECURSIVE EncodeToString(_)
EncodeToString(src) ==
    IF Len(src) = 0 THEN <<>>
    ELSE IF Len(src) = 1 THEN
        LET val == src[1] * 65536
        IN  <<encodeChar(val \div 262144), encodeChar((val \div 4096) % 64),
              chPad, chPad>>
    ELSE IF Len(src) = 2 THEN
        LET val == src[1] * 65536 + src[2] * 256
        IN  <<encodeChar(val \div 262144), encodeChar((val \div 4096) % 64),
              encodeChar((val \div 64) % 64), chPad>>
    ELSE
        LET val == src[1] * 65536 + src[2] * 256 + src[3]
        IN  <<encodeChar(val \div 262144), encodeChar((val \div 4096) % 64),
              encodeChar((val \div 64) % 64), encodeChar(val % 64)>>
            \o EncodeToString(SubSeq(src, 4, Len(src)))

IsNewline(c) == c = chLF \/ c = chCR

\* first position >= i of s that holds no CR/LF (the decoder skips them)
RECURSIVE SkipNewlines(_, _)
SkipNewlines(s, i) ==
    IF i <= Len(s) /\ IsNewline(s[i]) THEN SkipNewlines(s, i + 1) ELSE i

\* the bytes of a quantum of dlen 6-bit values (dlen - 1 bytes; the decoder is
\* not strict, so left-over bits of a padded quantum are dropped unchecked)
QuantumBytes(dbuf) ==
    LET d(k) == IF k <= Len(dbuf) THEN dbuf[k] ELSE 0
        val  == d(1) * 262144 + d(2) * 4096 + d(3) * 64 + d(4)
        all  == <<val \div 65536, (val \div 256) % 256, val % 256>>
    IN  SubSeq(all, 1, Len(dbuf) - 1)

CorruptInput == [ok |-> FALSE, val |-> <<>>]

\* encoder.DecodeString from position si, with dbuf the 6-bit values of the
\* quantum being read and dst the bytes decoded so far
RECURSIVE DecodeFrom(_, _, _, _)
DecodeFrom(s, si, dbuf, dst) ==
    IF si > Len(s) THEN
        \* end of input: fine between quanta, corrupt inside one (padding is
        \* required)
        IF Len(dbuf) = 0 THEN [ok |-> TRUE, val |-> dst] ELSE CorruptInput
    ELSE IF decodeMap(s[si]) # noChar THEN
        LET nbuf == Append(dbuf, decodeMap(s[si]))
        IN  IF Len(nbuf) = 4
            THEN DecodeFrom(s, si + 1, <<>>, dst \o QuantumBytes(nbuf))
            ELSE DecodeFrom(s, si + 1, nbuf, dst)
    ELSE IF IsNewline(s[si]) THEN DecodeFrom(s, si + 1, dbuf, dst)
    ELSE IF s[si] # chPad THEN CorruptInput
    ELSE IF Len(dbuf) < 2 THEN CorruptInput
    ELSE IF Len(dbuf) = 2 THEN
        \* "==" is expected; the first '=' is consumed
        LET sj == SkipNewlines(s, si + 1)
        IN  IF sj > Len(s) THEN CorruptInput
            ELSE IF s[sj] # chPad THEN CorruptInput
            ELSE IF SkipNewlines(s, sj + 1) <= Len(s) THEN CorruptInput
            ELSE [ok |-> TRUE, val |-> dst \o QuantumBytes(dbuf)]
    ELSE
        IF SkipNewlines(s, si + 1) <= Len(s) THEN CorruptInput
        ELSE [ok |-> TRUE, val |-> dst \o QuantumBytes(dbuf)]

DecodeString(s) == DecodeFrom(s, 1, <<>>, <<>>)


(***************************************************************************)
(* Error values.                                                           *)
(***************************************************************************)
Nil == "nil"
\* var ErrorNotFound = errors.New("not found")
ErrorNotFound == "not found"
\* errors.New("unexpected seaweed status")
ErrUnexpectedStatus == "unexpected seaweed status"
\* the error of http.Get / http.DefaultClient.Do (no response was received)
ErrTransport == "http: request failed"
\* base64.CorruptInputError
ErrCorruptInput == "illegal base64 data"
\* the error of json.Decoder.Decode
ErrJSON == "json: cannot decode"
\* the error of url.Parse / http.NewRequest
ErrURL == "url: cannot parse"
\* the error of io.Copy
ErrCopy == "io: copy failed"

(***************************************************************************)
(* AssignResult and the filename codec.                                    *)
(***************************************************************************)
\* a nil *AssignResult
NilResult == [isNil |-> TRUE, fid |-> <<>>, url |-> ""]

\* &AssignResult{fid: fid, url: url}
AssignResult(fid, url) == [isNil |-> FALSE, fid |-> fid, url |-> url]

\* the mutant of Filename: the unpadded encoding of the source's todo
FilenameRaw(r) == RawEncodeToString(r.fid)

\* (r *AssignResult) Filename
Filename(r) == EncodeToString(r.fid)

\* (r *AssignResult) URL
URL(r) == r.url

\* decodeFilename: parts[0] of strings.Split(f, "."), un-base64'd
decodeFilename(f) ==
    LET fid == DecodeString(SplitFirst(f, chDot))
    IN  IF ~fid.ok THEN [val |-> <<>>, err |-> ErrCorruptInput]
        ELSE [val |-> fid.val, err |-> Nil]

\* NewResult(u, filename)
NewResult(u, filename) ==
    LET d == decodeFilename(filename)
    IN  IF d.err # Nil THEN [r |-> NilResult, err |-> d.err]
        ELSE [r |-> AssignResult(d.val, u), err |-> Nil]

(***************************************************************************)
(* The state.                                                              *)
(*   SeaweedAddr  config.SeaweedAddr, fixed at process start               *)
(*   rng          the state of math/rand's process-wide locked source      *)
(*   call         per caller, the call it is in: its position, arguments,  *)
(*                locals, the requests it issued, the answers it got, the  *)
(*                response bodies it obtained, its sink and its result     *)
(*   codec        the filename round trip of the codec specification       *)
(***************************************************************************)
VARIABLES SeaweedAddr, rng, call, codec

vars == <<SeaweedAddr, rng, call, codec>>

Callers == 1..NumCallers

(***************************************************************************)
(* The environment: addresses, fids, bodies and HTTP outcomes.             *)
(***************************************************************************)
\* a name with an SRV record and the host:port the record names
MasterName == "seaweed.service"
SrvTarget == "10.0.0.9:9333"
VolA == "10.0.0.1:8080"
VolB == "10.0.0.2:8080"
\* a host url.Parse rejects (invalid escape)
BadAddr == "%zz"

\* --seaweed-addr: init() refuses the empty string
MasterAddrs == {MasterName, BadAddr}

\* url.Parse("http://" + host + ...) succeeds
URLParses(host) == host # BadAddr

\* srvclient.MaybeSRV: the SRV target of the name, or the address as given
\* when it has no SRV record
MaybeSRV(addr) == IF addr = MasterName THEN SrvTarget ELSE addr

\* "3,a" and "7"
Fids == {<<51, chComma, 97>>, <<55>>}

EmptyBody == [wf |-> TRUE, fid |-> <<>>, url |-> "", locations |-> <<>>, data |-> <<>>]
MalformedBody == [EmptyBody EXCEPT !.wf = FALSE]

AssignBodies ==
    {MalformedBody} \cup {[EmptyBody EXCEPT !.fid = k, !.url = a] : k \in Fids, a \in {VolA, BadAddr}}

LocLists == {<<>>, <<VolA>>, <<VolA, VolB>>, <<BadAddr>>}

LookupBodies ==
    {MalformedBody} \cup {[EmptyBody EXCEPT !.locations = l] : l \in LocLists}

\* "hi"
DataBodies == {[EmptyBody EXCEPT !.data = <<104, 105>>]}

\* the statuses a server answers with: those the code names, and 500
Statuses == {StatusOK, StatusCreated, StatusAccepted, StatusNotFound, 500}

\* the error of the HTTP client: no response
TransportError == [kind |-> "err", status |-> 0, header |-> "nil", body |-> EmptyBody]

Response(status, header, body) ==
    [kind |-> "resp", status |-> status, header |-> header, body |-> body]

\* "no": what a server says in the body of a response that reports a failure
ErrorPage == [EmptyBody EXCEPT !.wf = FALSE, !.data = <<110, 111>>]

\* what a request may end in: an error of the client, or a response of any
\* status, with one of `bodies` under the status the server answers a served
\* request with and an error page under any other
Outcomes(servedCode, header, bodies) ==
    {TransportError}
    \cup {Response(servedCode, header, b) : b \in bodies}
    \cup {Response(st, header, ErrorPage) : st \in Statuses \ {servedCode}}

(***************************************************************************)
(* Requests.                                                               *)
(***************************************************************************)
NoForm == [name |-> "", filename |-> <<>>, data |-> <<>>]

\* GET http://{host}/dir/assign?replication=&ttl= (a parameter of "" is left
\* out) and GET http://{host}/dir/lookup?volumeId={fid}
masterReq(svc, host, volumeId, replication, ttl) ==
    [method |-> "GET", svc |-> svc, host |-> host, fid |-> volumeId,
     replication |-> replication, ttl |-> ttl, form |-> NoForm]

\* {method} http://{host}/{fid}[?ttl=]
volumeReq(method, host, fid, ttl, form) ==
    [method |-> method, svc |-> "volume", host |-> host, fid |-> fid,
     replication |-> "", ttl |-> ttl, form |-> form]

(***************************************************************************)
(* A call.                                                                 *)
(***************************************************************************)
NoArg == [filename |-> <<>>, u |-> "", r |-> NilResult, replication |-> "",
          ttl |-> "", data |-> <<>>, readOK |-> TRUE, w |-> <<>>]

NoRet == [err |-> Nil, r |-> NilResult, hdr |-> "nil"]

Idle == [pc |-> "idle", op |-> "none", arg |-> NoArg, fid |-> <<>>, i |-> -1,
         reqs |-> <<>>, got |-> <<>>, bodies |-> <<>>, sink |-> <<>>,
         copied |-> FALSE, ret |-> NoRet]

Panic == "panic: index out of range"

Begin(op, arg) == [Idle EXCEPT !.op = op, !.arg = arg, !.sink = arg.w]

Finish(c, ret) == [c EXCEPT !.pc = "done", !.ret = ret]

Failed(c, err) == Finish(c, [NoRet EXCEPT !.err = err])

\* the request is handed to the HTTP client
Send(c, req, pc) == [c EXCEPT !.reqs = Append(@, req), !.pc = pc]

\* the client returned o; a response brings a body, closed `closed` times by
\* the time the function that obtained it returns
Got(c, o, svc, closed) ==
    [c EXCEPT !.got = Append(@, o),
              !.bodies = IF o.kind = "resp"
                         THEN Append(@, [svc |-> svc, closed |-> closed])
                         ELSE @]

(***************************************************************************)
(* handleResp and doReq.                                                   *)
(***************************************************************************)
\* the mutant of handleResp: the body of a rejected response is not closed
handleRespLeaky(status, expectedCode) ==
    IF status # expectedCode
    THEN [err |-> IF status = StatusNotFound THEN ErrorNotFound ELSE ErrUnexpectedStatus,
          closed |-> 0]
    ELSE [err |-> Nil, closed |-> 0]

\* the mutant of handleResp: every 2xx status is taken for the expected one
handleRespAny2xx(status, expectedCode) ==
    IF status # expectedCode /\ ~(status >= 200 /\ status < 300)
    THEN [err |-> IF status = StatusNotFound THEN ErrorNotFound ELSE ErrUnexpectedStatus,
          closed |-> 1]
    ELSE [err |-> Nil, closed |-> 0]

\* the mutant of handleResp: a not-found status is reported like any other
handleRespNoNotFound(status, expectedCode) ==
    IF status # expectedCode
    THEN [err |-> ErrUnexpectedStatus, closed |-> 1]
    ELSE [err |-> Nil, closed |-> 0]

\* handleResp: the error for a response of status `status`, and how often it
\* closed the body (its deferred Close runs only on the mismatch path)
handleResp(status, expectedCode) ==
    IF status # expectedCode
    THEN [err |-> IF status = StatusNotFound THEN ErrorNotFound ELSE ErrUnexpectedStatus,
          closed |-> 1]
    ELSE [err |-> Nil, closed |-> 0]

\* doReq: the client's error, or handleResp's verdict on the response
doReq(o, expectedCode) ==
    IF o.kind = "err" THEN [err |-> ErrTransport, closed |-> 0]
    ELSE handleResp(o.status, expectedCode)

(***************************************************************************)
(* The random source and replica selection.                                *)
(***************************************************************************)
\* the mutant of Intn: an off-by-one bound
IntnOffByOne(n) == rng % (n + 1)

\* rand.Intn(n) on the locked process-wide source: a value in 0..n-1
Intn(n) == rng % n

\* the source steps to its next state with every draw
NextRng == (rng + 1) % RngStates

\* the mutant of pickLocation: always the first replica
pickFirstLocation(locations, i) == locations[1]

\* r.Locations[i].URL
pickLocation(locations, i) == locations[i + 1]

(***************************************************************************)
(* NewResult.                                                              *)
(***************************************************************************)
NewResultCall(p, u, filename) ==
    /\ call[p].pc = "idle"
    /\ LET c  == Begin("NewResult", [NoArg EXCEPT !.u = u, !.filename = filename])
           nr == NewResult(u, filename)
       IN  call' = [call EXCEPT ![p] = Finish(c, [NoRet EXCEPT !.err = nr.err, !.r = nr.r])]
    /\ UNCHANGED <<SeaweedAddr, rng, codec>>

(***************************************************************************)
(* Assign.                                                                 *)
(***************************************************************************)
\* Assign up to its http.Get: the URL is built, then requested
assignStart(c) ==
    LET addr == MaybeSRV(SeaweedAddr)
    IN  IF ~URLParses(addr) THEN Failed(c, ErrURL)
        ELSE Send(c, masterReq("assign", addr, <<>>, c.arg.replication, c.arg.ttl),
                  "assign")

\* Assign from the return of its http.Get
assignReturn(c, o) ==
    IF o.kind = "err" THEN Failed(Got(c, o, "assign", 0), ErrTransport)
    ELSE LET h == handleResp(o.status, StatusOK)
         IN  IF h.err # Nil THEN Failed(Got(c, o, "assign", h.closed), h.err)
             \* defer resp.Body.Close() is registered from here on
             ELSE IF ~o.body.wf THEN Failed(Got(c, o, "assign", h.closed + 1), ErrJSON)
             ELSE Finish(Got(c, o, "assign", h.closed + 1),
                         [NoRet EXCEPT !.r = AssignResult(o.body.fid, o.body.url)])

AssignCall(p, replication, ttl) ==
    /\ call[p].pc = "idle"
    /\ call' = [call EXCEPT ![p] =
                  assignStart(Begin("Assign", [NoArg EXCEPT !.replication = replication,
                                                            !.ttl = ttl]))]
    /\ UNCHANGED <<SeaweedAddr, rng, codec>>

AssignResp(p, o) ==
    /\ call[p].pc = "assign"
    /\ call' = [call EXCEPT ![p] = assignReturn(@, o)]
    /\ UNCHANGED <<SeaweedAddr, rng, codec>>

(***************************************************************************)
(* Upload.                                                                 *)
(***************************************************************************)
\* Upload up to doReq: the URL, the multipart form holding the body, the PUT
uploadStart(c) ==
    LET r == c.arg.r
    IN  IF ~URLParses(r.url) THEN Failed(c, ErrURL)
        ELSE IF ~c.arg.readOK THEN Failed(c, ErrCopy)
        ELSE Send(c, volumeReq("PUT", r.url, r.fid, c.arg.ttl,
                               [name |-> "file", filename |-> Filename(r),
                                data |-> c.arg.data]), "upload")

\* the mutant of uploadReturn: a request the client could not make is made
\* once more
uploadReturnRetry(c, o) ==
    LET d == doReq(o, StatusCreated)
    IN  IF o.kind = "err" /\ Len(c.reqs) < 2
        THEN Send(Got(c, o, "volume", d.closed), c.reqs[1], "upload")
        ELSE IF d.err # Nil THEN Failed(Got(c, o, "volume", d.closed), d.err)
        ELSE Finish(Got(c, o, "volume", d.closed + 1), NoRet)

\* Upload from the return of doReq
uploadReturn(c, o) ==
    LET d == doReq(o, StatusCreated)
    IN  IF d.err # Nil THEN Failed(Got(c, o, "volume", d.closed), d.err)
        ELSE Finish(Got(c, o, "volume", d.closed + 1), NoRet)

UploadCall(p, r, data, readOK, ttl) ==
    /\ call[p].pc = "idle"
    /\ call' = [call EXCEPT ![p] =
                  uploadStart(Begin("Upload", [NoArg EXCEPT !.r = r, !.data = data,
                                                            !.readOK = readOK,
                                                            !.ttl = ttl]))]
    /\ UNCHANGED <<SeaweedAddr, rng, codec>>

UploadResp(p, o) ==
    /\ call[p].pc = "upload"
    /\ URLParses(call[p].reqs[1].host) \/ o.kind = "err"
    /\ call' = [call EXCEPT ![p] = uploadReturn(@, o)]
    /\ UNCHANGED <<SeaweedAddr, rng, codec>>

(***************************************************************************)
(* lookup.                                                                 *)
(***************************************************************************)
\* the mutant of lookupStart: the decode error is dropped and the lookup is
\* made with whatever was decoded
lookupStartUnchecked(c) ==
    LET d    == decodeFilename(c.arg.filename)
        addr == MaybeSRV(SeaweedAddr)
    IN  Send([c EXCEPT !.fid = d.val],
             masterReq("lookup", addr, SplitFirst(d.val, chComma), "", ""), "lookup")

\* lookup up to its http.Get: the filename is decoded, the volume id is the
\* part of the fid before the first comma
lookupStart(c) ==
    LET d    == decodeFilename(c.arg.filename)
        addr == MaybeSRV(SeaweedAddr)
    IN  IF d.err # Nil THEN Failed(c, d.err)
        ELSE Send([c EXCEPT !.fid = d.val],
                  masterReq("lookup", addr, SplitFirst(d.val, chComma), "", ""), "lookup")

\* the master's answer brings a non-empty location list: lookup draws from rng
Draws(o) ==
    /\ o.kind = "resp"
    /\ o.status = StatusOK
    /\ o.body.wf
    /\ Len(o.body.locations) > 0

\* the mutant of emptyLocations: an empty list is reported as a failed request
emptyLocationsUnexpected(locs) ==
    IF Len(locs) = 0 THEN ErrUnexpectedStatus ELSE Nil

\* if len(r.Locations) == 0 { return "", ErrorNotFound }
emptyLocations(locs) ==
    IF Len(locs) = 0 THEN ErrorNotFound ELSE Nil

\* lookup from the return of its http.Get: the call, the error, uStr's host
lookupReturn(c, o) ==
    IF o.kind = "err"
    THEN [c |-> Got(c, o, "lookup", 0), err |-> ErrTransport, u |-> ""]
    ELSE LET h    == handleResp(o.status, StatusOK)
             locs == o.body.locations
         IN  IF h.err # Nil
             THEN [c |-> Got(c, o, "lookup", h.closed), err |-> h.err, u |-> ""]
             \* defer resp.Body.Close() is registered from here on
             ELSE IF ~o.body.wf
             THEN [c |-> Got(c, o, "lookup", h.closed + 1), err |-> ErrJSON, u |-> ""]
             ELSE IF emptyLocations(locs) # Nil
             THEN [c |-> Got(c, o, "lookup", h.closed + 1), err |-> emptyLocations(locs),
                   u |-> ""]
             ELSE LET i  == Intn(Len(locs))
                      ci == [Got(c, o, "lookup", h.closed + 1) EXCEPT !.i = i]
                  IN  IF i >= Len(locs)
                      \* r.Locations[i] out of range: a run-time panic
                      THEN [c |-> ci, err |-> Panic, u |-> ""]
                      ELSE [c |-> ci, err |-> Nil,
                            u |-> pickLocation(locs, i)]

(***************************************************************************)
(* Get and Delete.                                                         *)
(***************************************************************************)
\* the caller of lookup, from lookup's return to its own request
afterLookup(c, o) ==
    LET l == lookupReturn(c, o)
    IN  IF l.err # Nil THEN Failed(l.c, l.err)
        ELSE IF c.op = "Get"
        \* http.Get(uStr)
        THEN Send(l.c, volumeReq("GET", l.u, c.fid, "", NoForm), "transfer")
        \* http.NewRequest("DELETE", uStr, nil), doReq
        ELSE IF ~URLParses(l.u) THEN Failed(l.c, ErrURL)
        ELSE Send(l.c, volumeReq("DELETE", l.u, c.fid, "", NoForm), "transfer")

\* the mutant of getReturn: the body is copied before the status is looked at
getReturnCopyAlways(c, o, n, copyOK) ==
    IF o.kind = "err" THEN Failed(Got(c, o, "volume", 0), ErrTransport)
    ELSE LET h == handleResp(o.status, StatusOK)
         IN  Finish([Got(c, o, "volume", 1)
                        EXCEPT !.sink = @ \o SubSeq(o.body.data, 1, n),
                               !.copied = TRUE],
                    [NoRet EXCEPT !.err = IF h.err # Nil THEN h.err
                                          ELSE IF copyOK THEN Nil ELSE ErrCopy,
                                  !.hdr = o.header])

\* Get from the return of its http.Get of the file: n bytes of the body reach
\* the sink, all of them if the copy succeeds
getReturn(c, o, n, copyOK) ==
    IF o.kind = "err" THEN Failed(Got(c, o, "volume", 0), ErrTransport)
    ELSE LET h == handleResp(o.status, StatusOK)
         IN  IF h.err # Nil
             THEN Finish(Got(c, o, "volume", h.closed),
                         [NoRet EXCEPT !.err = h.err, !.hdr = o.header])
             \* defer resp.Body.Close() is registered from here on
             ELSE Finish([Got(c, o, "volume", h.closed + 1)
                             EXCEPT !.sink = @ \o SubSeq(o.body.data, 1, n),
                                    !.copied = TRUE],
                         [NoRet EXCEPT !.err = IF copyOK THEN Nil ELSE ErrCopy,
                                       !.hdr = o.header])

\* Delete from the return of doReq
deleteReturn(c, o) ==
    LET d == doReq(o, StatusAccepted)
    IN  IF d.err # Nil THEN Failed(Got(c, o, "volume", d.closed), d.err)
        ELSE Finish(Got(c, o, "volume", d.closed + 1), NoRet)

GetCall(p, filename, w) ==
    /\ call[p].pc = "idle"
    /\ call' = [call EXCEPT ![p] =
                  lookupStart(Begin("Get", [NoArg EXCEPT !.filename = filename,
                                                         !.w = w]))]
    /\ UNCHANGED <<SeaweedAddr, rng, codec>>

DeleteCall(p, filename) ==
    /\ call[p].pc = "idle"
    /\ call' = [call EXCEPT ![p] =
                  lookupStart(Begin("Delete", [NoArg EXCEPT !.filename = filename]))]
    /\ UNCHANGED <<SeaweedAddr, rng, codec>>

\* the master answers the lookup of a Get or a Delete
LookupResp(p, o) ==
    /\ call[p].pc = "lookup"
    /\ URLParses(call[p].reqs[1].host) \/ o.kind = "err"
    /\ call' = [call EXCEPT ![p] = afterLookup(@, o)]
    /\ rng' = IF Draws(o) THEN NextRng ELSE rng
    /\ UNCHANGED <<SeaweedAddr, codec>>

\* the volume server answers the GET or the DELETE
TransferResp(p, o, n, copyOK) ==
    /\ call[p].pc = "transfer"
    /\ URLParses(call[p].reqs[2].host) \/ o.kind = "err"
    /\ n \in 0..Len(o.body.data)
    /\ copyOK => n = Len(o.body.data)
    /\ call' = [call EXCEPT ![p] = IF @.op = "Get" THEN getReturn(@, o, n, copyOK)
                                   ELSE deleteReturn(@, o)]
    /\ UNCHANGED <<SeaweedAddr, rng, codec>>

\* the volume requests of a call
VolumeReqs(c) == SelectSeq(c.reqs, LAMBDA q : q.svc = "volume")

\* the call returns to its caller
Return(p) ==
    /\ call[p].pc = "done"
    /\ call' = [call EXCEPT ![p] = Idle]
    /\ UNCHANGED <<SeaweedAddr, rng, codec>>

(***************************************************************************)
(* The codec specification's steps: a handle is encoded into a filename,   *)
(* a caller appends an extension, and NewResult decodes the filename.      *)
(***************************************************************************)
KeyBytes == {0, chComma, chDot, 251, 255}

CodecKeys == SeqsUpTo(KeyBytes, MaxKeyLen)

\* no extension, ".", ".j", ".=."
Suffixes == {<<>>, <<chDot>>, <<chDot, 106>>, <<chDot, chPad, chDot>>}

HandleURLs == {VolA, VolB}

CodecIdle == [phase |-> "idle", r |-> NilResult, name |-> <<>>, u |-> "",
              out |-> [r |-> NilResult, err |-> Nil]]

CodecEncode(k, a, s) ==
    /\ codec.phase = "idle"
    /\ codec' = [CodecIdle EXCEPT !.phase = "encoded", !.r = AssignResult(k, a),
                                  !.name = Filename(AssignResult(k, a)) \o s]
    /\ UNCHANGED <<SeaweedAddr, rng, call>>

CodecDecode(u) ==
    /\ codec.phase = "encoded"
    /\ codec' = [codec EXCEPT !.phase = "decoded", !.u = u,
                              !.out = NewResult(u, codec.name)]
    /\ UNCHANGED <<SeaweedAddr, rng, call>>

CodecReset ==
    /\ codec.phase = "decoded"
    /\ codec' = CodecIdle
    /\ UNCHANGED <<SeaweedAddr, rng, call>>

(***************************************************************************)
(* The specifications.                                                     *)
(***************************************************************************)
\* 'M', '=', LF, '+'
RawChars == {77, chPad, chLF, 43}

\* "My", LF, "xh": the filename of "3,a" broken over two lines
BrokenName == <<77, 121, chLF, 120, 104>>

\* the filenames a caller presents: every short string over RawChars, the
\* filenames of fids with and without an extension, and a filename with a
\* line break in it
Names ==
    SeqsUpTo(RawChars, MaxRawLen)
    \cup {Filename(AssignResult(k, "")) \o s : k \in Fids, s \in Suffixes}
    \cup {BrokenName}

Handles == {AssignResult(k, a) : k \in Fids, a \in {VolA, BadAddr}}

Replications == {"", "001"}
TTLs == {"", "5m"}
\* "hello"
Payloads == {<<104, 101, 108, 108, 111>>}
\* what the sink holds when Get is called
Sinks == {<<>>, <<120>>}

MasterHeader == "application/json"
VolumeHeader == "image/jpeg"

Init ==
    /\ SeaweedAddr \in MasterAddrs
    /\ rng \in 0..(RngStates - 1)
    /\ call = [p \in Callers |-> Idle]
    /\ codec = CodecIdle

\* one caller, one call after the other
Next ==
    \E p \in {1} :
        \/ /\ call[p].pc = "idle"
           /\ \/ \E u \in HandleURLs, f \in Names : NewResultCall(p, u, f)
              \/ \E rp \in Replications, ttl \in TTLs : AssignCall(p, rp, ttl)
              \/ \E r \in Handles, d \in Payloads, ok \in BOOLEAN, ttl \in TTLs :
                    UploadCall(p, r, d, ok, ttl)
              \/ \E f \in Names, w \in Sinks : GetCall(p, f, w)
              \/ \E f \in Names : DeleteCall(p, f)
        \/ /\ call[p].pc = "assign"
           /\ \E o \in Outcomes(StatusOK, MasterHeader, AssignBodies) : AssignResp(p, o)
        \/ /\ call[p].pc = "upload"
           /\ \E o \in Outcomes(StatusCreated, VolumeHeader, {EmptyBody}) :
                 UploadResp(p, o)
        \/ /\ call[p].pc = "lookup"
           /\ \E o \in Outcomes(StatusOK, MasterHeader, LookupBodies) : LookupResp(p, o)
        \/ /\ call[p].pc = "transfer"
           /\ \E o \in Outcomes(StatusOK, VolumeHeader, DataBodies)
                       \cup Outcomes(StatusAccepted, VolumeHeader, {EmptyBody}),
                 n \in 0..2, ok \in BOOLEAN :
                 TransferResp(p, o, n, ok)
        \/ Return(p)

Spec == Init /\ [][Next]_vars

\* the codec alone
NextCodec ==
    \/ /\ codec.phase = "idle"
       /\ \E k \in CodecKeys, a \in HandleURLs, s \in Suffixes : CodecEncode(k, a, s)
    \/ \E u \in HandleURLs : CodecDecode(u)
    \/ CodecReset

\* the codec reads neither the configuration nor the random source
InitCodec ==
    /\ Init
    /\ SeaweedAddr = MasterName
    /\ rng = 0

SpecCodec == InitCodec /\ [][NextCodec]_vars

\* several callers at once, each with one call after the other, on fewer
\* inputs
ConcNames == {Filename(AssignResult(<<51, chComma, 97>>, "")), <<43>>}

ConcOutcomes(servedCode, header, bodies) ==
    {TransportError}
    \cup {Response(servedCode, header, b) : b \in bodies}
    \cup {Response(StatusNotFound, header, ErrorPage)}

ConcLookupBodies ==
    {[EmptyBody EXCEPT !.locations = l] : l \in {<<>>, <<VolB>>, <<VolA, VolB>>}}

NextConc ==
    \E p \in Callers :
        \/ AssignCall(p, "", "")
        \/ /\ call[p].pc = "assign"
           /\ \E o \in ConcOutcomes(StatusOK, MasterHeader,
                                    {[EmptyBody EXCEPT !.fid = <<55>>, !.url = VolA]}) :
                 AssignResp(p, o)
        \/ \E d \in Payloads : UploadCall(p, AssignResult(<<55>>, VolA), d, TRUE, "")
        \/ /\ call[p].pc = "upload"
           /\ \E o \in ConcOutcomes(StatusCreated, VolumeHeader, {EmptyBody}) :
                 UploadResp(p, o)
        \/ \E f \in ConcNames : GetCall(p, f, <<>>)
        \/ \E f \in ConcNames : DeleteCall(p, f)
        \/ /\ call[p].pc = "lookup"
           /\ \E o \in ConcOutcomes(StatusOK, MasterHeader, ConcLookupBodies) :
                 LookupResp(p, o)
        \/ /\ call[p].pc = "transfer"
           /\ \E o \in ConcOutcomes(StatusOK, VolumeHeader, DataBodies)
                       \cup ConcOutcomes(StatusAccepted, VolumeHeader, {EmptyBody}),
                 n \in {0, 2}, ok \in BOOLEAN :
                 TransferResp(p, o, n, ok)
        \/ Return(p)

SpecConc == Init /\ [][NextConc]_vars

(***************************************************************************)
(* Vocabulary of the properties.                                           *)
(***************************************************************************)
Done(c) == c.pc = "done"

IsResp(o) == o.kind = "resp"

Last(q) == q[Len(q)]

LookupReqs(c) == SelectSeq(c.reqs, LAMBDA q : q.svc = "lookup")

Responses(c) == SelectSeq(c.got, LAMBDA o : o.kind = "resp")

\* the status that lets the k-th request of a call of `op` go on
ExpectedCode(op, k) ==
    IF op = "Upload" THEN StatusCreated
    ELSE IF op = "Delete" /\ k = 2 THEN StatusAccepted
    ELSE StatusOK

\* the spec's RequestError: a status other than the expected one, or no
\* response at all
RequestErrors == {ErrUnexpectedStatus, ErrTransport}

\* c is in the alphabet of the URL-safe encoding
InAlphabet(ch) == \E i \in 0..63 : encodeChar(i) = ch

\* s is padded URL-safe base-64: groups of four characters of the alphabet,
\* the last group ending in at most two '='
ValidBase64(s) ==
    /\ Len(s) % 4 = 0
    /\ \A i \in 1..Len(s) :
          \/ InAlphabet(s[i])
          \/ /\ s[i] = chPad
             /\ i >= Len(s) - 1
             /\ s[Len(s)] = chPad

WithoutNewlines(s) == SelectSeq(s, LAMBDA ch : ~IsNewline(ch))

\* the part of the call's filename before the first '.'
NamePart(c) == SplitFirst(c.arg.filename, chDot)

TakesFilename(c) == c.op \in {"NewResult", "Get", "Delete"}

\* the call was refused for its filename: a decode error, no handle, no
\* request
RefusedForName(c) ==
    /\ Done(c)
    /\ c.ret.err = ErrCorruptInput
    /\ c.ret.r.isNil
    /\ c.reqs = <<>>
    /\ c.got = <<>>

(***************************************************************************)
(* C1: for every fid k and every suffix s that is empty or starts with     *)
(* '.', decodeFilename(Filename of k, followed by s) is k without an       *)
(* error, and NewResult(u, that filename) is the handle of fid k and url   *)
(* u.                                                                      *)
(***************************************************************************)
C1_RoundTrip ==
    /\ codec.phase \in {"encoded", "decoded"} =>
          decodeFilename(codec.name) = [val |-> codec.r.fid, err |-> Nil]
    /\ codec.phase = "decoded" =>
          codec.out = [r |-> AssignResult(codec.r.fid, codec.u), err |-> Nil]

\* a two-byte fid holding a '.', encoded with padding, an extension added,
\* rebuilt under another url
C1_Witness ==
    /\ codec.phase = "decoded"
    /\ codec.r.fid = <<chDot, 255>>
    /\ Len(codec.name) = Len(Filename(codec.r)) + 2
    /\ codec.u # codec.r.url
    /\ codec.out.r.fid = codec.r.fid

(***************************************************************************)
(* C2, as claimed: a filename whose part before the first '.' is not valid *)
(* padded URL-safe base-64 makes NewResult, Get and Delete return a decode *)
(* error, with no handle and no request.                                   *)
(***************************************************************************)
C2_Original ==
    \A p \in Callers :
        (TakesFilename(call[p]) /\ ~ValidBase64(NamePart(call[p])))
            => RefusedForName(call[p])

(***************************************************************************)
(* C2, amended: the same for a filename whose part before the first '.'    *)
(* is not valid padded URL-safe base-64 once its CR and LF characters,     *)
(* which the decoder skips, are taken out.                                 *)
(***************************************************************************)
C2_Amended ==
    \A p \in Callers :
        (TakesFilename(call[p]) /\ ~ValidBase64(WithoutNewlines(NamePart(call[p]))))
            => RefusedForName(call[p])

\* a Get of "MM=+": refused before any request
C2_Witness ==
    \E p \in Callers :
        /\ call[p].op = "Get"
        /\ call[p].arg.filename = <<77, 77, chPad, 43>>
        /\ RefusedForName(call[p])

(***************************************************************************)
(* C3: in Get and Delete, a lookup answered 404, or 200 with an empty      *)
(* location list, ends the call with NotFound; a lookup answered with      *)
(* another status than 200, not answered at all, or answered with a        *)
(* malformed body ends it with an error that is not NotFound; and no       *)
(* request goes to a volume server in any of these cases.                  *)
(***************************************************************************)
C3_LookupFailure ==
    \A p \in Callers :
        LET c == call[p]
            o == c.got[1]
        IN  (c.op \in {"Get", "Delete"} /\ Len(c.got) >= 1) =>
              /\ ((IsResp(o) /\ o.status = StatusNotFound)
                  \/ (IsResp(o) /\ o.status = StatusOK /\ o.body.wf
                      /\ o.body.locations = <<>>))
                    => (Done(c) /\ c.ret.err = ErrorNotFound /\ VolumeReqs(c) = <<>>)
              /\ ((IsResp(o) /\ o.status \notin {StatusOK, StatusNotFound})
                  \/ ~IsResp(o)
                  \/ (IsResp(o) /\ o.status = StatusOK /\ ~o.body.wf))
                    => (Done(c) /\ c.ret.err \notin {Nil, ErrorNotFound}
                        /\ VolumeReqs(c) = <<>>)

\* a Delete whose lookup found no location
C3_Witness ==
    \E p \in Callers :
        /\ call[p].op = "Delete"
        /\ Done(call[p])
        /\ Len(call[p].got) = 1
        /\ call[p].got[1].status = StatusOK
        /\ call[p].got[1].body.wf
        /\ call[p].got[1].body.locations = <<>>
        /\ call[p].ret.err = ErrorNotFound

(***************************************************************************)
(* C4, as claimed: NotFound is returned only for a lookup answered 404 or  *)
(* with an empty list; Assign never returns NotFound, and Upload and the   *)
(* volume-server step of Get and Delete return a RequestError, not         *)
(* NotFound, for every status other than the expected one, 404 included.   *)
(***************************************************************************)
C4_Original ==
    \A p \in Callers :
        LET c == call[p]
        IN  Done(c) =>
              /\ c.op = "Assign" => c.ret.err # ErrorNotFound
              /\ (c.op = "Upload" /\ Len(c.got) = 1 /\ IsResp(c.got[1])
                  /\ c.got[1].status # StatusCreated)
                    => c.ret.err \in RequestErrors
              /\ (c.op \in {"Get", "Delete"} /\ Len(c.got) = 2 /\ IsResp(c.got[2])
                  /\ c.got[2].status # ExpectedCode(c.op, 2))
                    => c.ret.err \in RequestErrors
              /\ c.ret.err = ErrorNotFound =>
                    /\ c.op \in {"Get", "Delete"}
                    /\ Len(c.got) = 1

(***************************************************************************)
(* C4, amended: a call returns NotFound exactly when the last answer it    *)
(* got has status 404 -- from the master or from a volume server, in       *)
(* Assign, Upload, Get and Delete alike -- or is a lookup's 200 with an    *)
(* empty location list; an answer of any other status than the expected    *)
(* one and 404 makes the call return the unexpected-status RequestError.   *)
(***************************************************************************)
C4_Amended ==
    \A p \in Callers :
        LET c == call[p]
            o == Last(c.got)
        IN  Done(c) =>
              /\ c.ret.err = ErrorNotFound <=>
                    /\ Len(c.got) >= 1
                    /\ IsResp(o)
                    /\ \/ o.status = StatusNotFound
                       \/ /\ c.op \in {"Get", "Delete"}
                          /\ Len(c.got) = 1
                          /\ o.status = StatusOK
                          /\ o.body.wf
                          /\ o.body.locations = <<>>
              /\ (Len(c.got) >= 1 /\ IsResp(o)
                  /\ o.status \notin {ExpectedCode(c.op, Len(c.got)), StatusNotFound})
                    => c.ret.err = ErrUnexpectedStatus

\* an Upload answered 404 returns NotFound
C4_Witness ==
    \E p \in Callers :
        /\ call[p].op = "Upload"
        /\ Done(call[p])
        /\ Len(call[p].got) = 1
        /\ call[p].got[1].status = StatusNotFound
        /\ call[p].ret.err = ErrorNotFound

(***************************************************************************)
(* C5: Upload returns nil exactly when the volume server answers the PUT   *)
(* with 201, Delete returns nil exactly when the lookup succeeded and the  *)
(* volume server answers the DELETE with 202, and Get copies the body      *)
(* exactly when the lookup succeeded and the volume server answers the     *)
(* GET with 200; any other 2xx status is an error.                         *)
(***************************************************************************)
C5_ExactStatus ==
    \A p \in Callers :
        LET c == call[p]
        IN  Done(c) =>
              /\ c.op = "Upload" =>
                    (c.ret.err = Nil <=>
                        (Len(c.got) = 1 /\ IsResp(c.got[1])
                         /\ c.got[1].status = StatusCreated))
              /\ c.op = "Delete" =>
                    (c.ret.err = Nil <=>
                        (Len(c.got) = 2 /\ Draws(c.got[1]) /\ IsResp(c.got[2])
                         /\ c.got[2].status = StatusAccepted))
              /\ c.op = "Get" =>
                    /\ c.copied <=>
                          (Len(c.got) = 2 /\ Draws(c.got[1]) /\ IsResp(c.got[2])
                           /\ c.got[2].status = StatusOK)
                    /\ c.ret.err = Nil => c.copied

\* an Upload answered 200 and a Delete answered 200 are errors
C5_Witness ==
    \E p \in Callers :
        /\ Done(call[p])
        /\ call[p].ret.err = ErrUnexpectedStatus
        /\ \/ /\ call[p].op = "Upload"
              /\ call[p].got[1].status = StatusOK
           \/ /\ call[p].op = "Delete"
              /\ Len(call[p].got) = 2
              /\ call[p].got[2].status = StatusOK

(***************************************************************************)
(* C6: on every exit path of Assign, Upload, Get and Delete, every         *)
(* response body the call obtained, from the master or from a volume       *)
(* server, has been closed exactly once when the function that obtained    *)
(* it has returned: none is left open and none is closed twice.            *)
(***************************************************************************)
C6_BodiesClosedOnce ==
    \A p \in Callers :
        LET c == call[p]
        IN  /\ Len(c.bodies) = Len(Responses(c))
            /\ \A k \in 1..Len(c.bodies) : c.bodies[k].closed = 1

\* a Get that obtained two bodies and left on the volume server's 500
C6_Witness ==
    \E p \in Callers :
        /\ call[p].op = "Get"
        /\ Done(call[p])
        /\ Len(call[p].bodies) = 2
        /\ call[p].got[2].status = 500
        /\ call[p].ret.err = ErrUnexpectedStatus

(***************************************************************************)
(* C7: a Get or Delete contacts a volume server only when its own lookup   *)
(* returned a non-empty location list, and the server contacted is the     *)
(* entry of that list at the index the random source gave, an index        *)
(* within the list -- so any entry may be chosen, not only the first.      *)
(***************************************************************************)
C7_ReplicaFromOwnLookup ==
    \A p \in Callers :
        LET c    == call[p]
            locs == c.got[1].body.locations
        IN  c.op \in {"Get", "Delete"} =>
              /\ Len(VolumeReqs(c)) > 0 => (Len(c.got) >= 1 /\ Draws(c.got[1]))
              /\ (Len(c.got) >= 1 /\ Draws(c.got[1])) =>
                    /\ c.i \in 0..(Len(locs) - 1)
                    /\ (c.op = "Get" \/ URLParses(locs[c.i + 1])) =>
                          /\ Len(VolumeReqs(c)) = 1
                          /\ VolumeReqs(c)[1].host = locs[c.i + 1]
                          /\ VolumeReqs(c)[1].host \in {locs[k] : k \in 1..Len(locs)}
                          /\ VolumeReqs(c)[1].fid = c.fid

\* the second of two replicas is the one contacted
C7_Witness ==
    \E p \in Callers :
        /\ call[p].op = "Get"
        /\ Len(call[p].got) >= 1
        /\ call[p].got[1].body.locations = <<VolA, VolB>>
        /\ Len(VolumeReqs(call[p])) = 1
        /\ VolumeReqs(call[p])[1].host = VolB

(***************************************************************************)
(* C8 and C9 speak of the answers a call got so far.                       *)
(***************************************************************************)
\* the k-th answer let the call go on
Succeeded(c, k) ==
    /\ IsResp(c.got[k])
    /\ c.got[k].status = ExpectedCode(c.op, k)

\* requests are answered one at a time, none is made after a failure, and a
\* returned call has had all its requests answered
NoResend(c) ==
    /\ Len(c.got) <= Len(c.reqs)
    /\ Len(c.reqs) <= Len(c.got) + 1
    /\ Done(c) => Len(c.got) = Len(c.reqs)
    /\ \A k \in 1..(Len(c.reqs) - 1) : Succeeded(c, k)
    /\ (Done(c) /\ Len(c.got) >= 1 /\ ~Succeeded(c, Len(c.got))) => c.ret.err # Nil

\* the order of the requests of a Get or Delete that begins with a lookup
LookupThenTransfer(c) ==
    /\ Len(c.reqs) <= 2
    /\ Len(c.reqs) >= 1 => (c.reqs[1].svc = "lookup" /\ c.reqs[1].host = MaybeSRV(SeaweedAddr))
    /\ Len(c.reqs) = 2 => (c.reqs[2].svc = "volume" /\ Draws(c.got[1]))

(***************************************************************************)
(* C8, as claimed: Get and Delete send exactly one lookup request to the   *)
(* master and then at most one request to a volume server, the latter      *)
(* only after the lookup succeeded with a non-empty list; Assign sends     *)
(* exactly one request to the master; Upload sends at most one request to  *)
(* the handle's volume server and no lookup; nothing is re-sent after a    *)
(* failure and the first failure is returned.                              *)
(***************************************************************************)
C8_Original ==
    \A p \in Callers :
        LET c == call[p]
        IN  /\ c.op \in {"Get", "Delete"} =>
                  /\ Len(LookupReqs(c)) = 1
                  /\ LookupThenTransfer(c)
            /\ c.op = "Assign" =>
                  /\ Len(c.reqs) = 1
                  /\ c.reqs[1].svc = "assign"
            /\ c.op = "Upload" =>
                  /\ Len(c.reqs) <= 1
                  /\ Len(c.reqs) = 1 =>
                        (c.reqs[1].svc = "volume" /\ c.reqs[1].host = URL(c.arg.r))
            /\ NoResend(c)

(***************************************************************************)
(* C8, amended: Get and Delete send one lookup request to the master when  *)
(* the filename decodes and no request at all when it does not, Assign     *)
(* sends one request to the master when the master's URL can be built and  *)
(* none when it cannot; the rest as claimed: a volume-server request       *)
(* follows only a lookup that succeeded with a non-empty list, Upload      *)
(* sends at most one request, to the handle's volume server, nothing is    *)
(* re-sent after a failure and the first failure is returned.              *)
(***************************************************************************)
C8_Amended ==
    \A p \in Callers :
        LET c == call[p]
        IN  /\ c.op \in {"Get", "Delete"} =>
                  /\ Len(LookupReqs(c)) = IF decodeFilename(c.arg.filename).err = Nil
                                          THEN 1 ELSE 0
                  /\ LookupThenTransfer(c)
            /\ c.op = "Assign" =>
                  /\ Len(c.reqs) = IF URLParses(MaybeSRV(SeaweedAddr)) THEN 1 ELSE 0
                  /\ Len(c.reqs) = 1 => c.reqs[1].svc = "assign"
            /\ c.op = "Upload" =>
                  /\ Len(c.reqs) <= 1
                  /\ Len(c.reqs) = 1 =>
                        (c.reqs[1].svc = "volume" /\ c.reqs[1].host = URL(c.arg.r))
            /\ NoResend(c)

\* a Get whose request to the volume server failed: two requests, the
\* failure returned
C8_Witness ==
    \E p \in Callers :
        /\ call[p].op = "Get"
        /\ Done(call[p])
        /\ Len(call[p].reqs) = 2
        /\ call[p].got[2] = TransportError
        /\ call[p].ret.err = ErrTransport

(***************************************************************************)
(* What a call returns when it runs alone: the call of c's operation on    *)
(* c's arguments, answered as c was answered, with i what the random       *)
(* source yields and n the number of bytes a failing copy lets through.    *)
(***************************************************************************)
Outcome(err, r, hdr, sink, hosts) ==
    [err |-> err, r |-> r, hdr |-> hdr, sink |-> sink, hosts |-> hosts]

\* the error of a response of status st where exp was expected
StatusError(st, exp) ==
    IF st = exp THEN Nil
    ELSE IF st = StatusNotFound THEN ErrorNotFound
    ELSE ErrUnexpectedStatus

AloneAssign(c) ==
    LET addr == MaybeSRV(SeaweedAddr)
        o    == c.got[1]
    IN  IF ~URLParses(addr) THEN Outcome(ErrURL, NilResult, "nil", <<>>, <<>>)
        ELSE IF ~IsResp(o) THEN Outcome(ErrTransport, NilResult, "nil", <<>>, <<addr>>)
        ELSE IF o.status # StatusOK
        THEN Outcome(StatusError(o.status, StatusOK), NilResult, "nil", <<>>, <<addr>>)
        ELSE IF ~o.body.wf THEN Outcome(ErrJSON, NilResult, "nil", <<>>, <<addr>>)
        ELSE Outcome(Nil, AssignResult(o.body.fid, o.body.url), "nil", <<>>, <<addr>>)

AloneUpload(c) ==
    LET r == c.arg.r
        o == c.got[1]
    IN  IF ~URLParses(r.url) THEN Outcome(ErrURL, NilResult, "nil", <<>>, <<>>)
        ELSE IF ~c.arg.readOK THEN Outcome(ErrCopy, NilResult, "nil", <<>>, <<>>)
        ELSE IF ~IsResp(o) THEN Outcome(ErrTransport, NilResult, "nil", <<>>, <<r.url>>)
        ELSE Outcome(StatusError(o.status, StatusCreated), NilResult, "nil", <<>>,
                     <<r.url>>)

AloneTransfer(c, i, n, copyOK) ==
    LET addr == MaybeSRV(SeaweedAddr)
        w    == c.arg.w
        o1   == c.got[1]
        o2   == c.got[2]
        locs == o1.body.locations
    IN  IF ~DecodeString(NamePart(c)).ok
        THEN Outcome(ErrCorruptInput, NilResult, "nil", w, <<>>)
        ELSE IF ~IsResp(o1) THEN Outcome(ErrTransport, NilResult, "nil", w, <<addr>>)
        ELSE IF o1.status # StatusOK
        THEN Outcome(StatusError(o1.status, StatusOK), NilResult, "nil", w, <<addr>>)
        ELSE IF ~o1.body.wf THEN Outcome(ErrJSON, NilResult, "nil", w, <<addr>>)
        ELSE IF Len(locs) = 0 THEN Outcome(ErrorNotFound, NilResult, "nil", w, <<addr>>)
        ELSE IF c.op = "Delete" /\ ~URLParses(locs[i + 1])
        THEN Outcome(ErrURL, NilResult, "nil", w, <<addr>>)
        ELSE IF ~IsResp(o2)
        THEN Outcome(ErrTransport, NilResult, "nil", w, <<addr, locs[i + 1]>>)
        ELSE IF c.op = "Delete"
        THEN Outcome(StatusError(o2.status, StatusAccepted), NilResult, "nil", w,
                     <<addr, locs[i + 1]>>)
        ELSE IF o2.status # StatusOK
        THEN Outcome(StatusError(o2.status, StatusOK), NilResult, o2.header, w,
                     <<addr, locs[i + 1]>>)
        ELSE Outcome(IF copyOK THEN Nil ELSE ErrCopy, NilResult, o2.header,
                     w \o SubSeq(o2.body.data, 1, n), <<addr, locs[i + 1]>>)

\* the indices the random source may yield for the call's location list
IndexRange(c) ==
    IF Len(c.got) >= 1 /\ Draws(c.got[1])
    THEN 0..(Len(c.got[1].body.locations) - 1) ELSE {0}

\* the numbers of bytes a copy of the call's file may let through
CopyRange(c) ==
    IF Len(c.got) = 2 THEN 0..Len(c.got[2].body.data) ELSE {0}

\* the results the call of c may have alone
AloneOutcomes(c) ==
    IF c.op = "Assign" THEN {AloneAssign(c)}
    ELSE IF c.op = "Upload" THEN {AloneUpload(c)}
    ELSE {AloneTransfer(c, i, n, ok) :
             i \in IndexRange(c),
             n \in CopyRange(c),
             ok \in {b \in BOOLEAN : Len(c.got) = 2}
                    \cup {b \in {TRUE} : Len(c.got) < 2}}

\* what the call of c did return
Returned(c) ==
    Outcome(c.ret.err, c.ret.r, c.ret.hdr, c.sink,
            [k \in 1..Len(c.reqs) |-> c.reqs[k].host])

(***************************************************************************)
(* C9: with several callers inside Assign, Upload, Get and Delete at once, *)
(* in any interleaving, each call returns what it could return alone on    *)
(* the answers it got: the random source is all the calls share, no call   *)
(* crashes on it, and the replica of a call is one of its own lookup's.    *)
(***************************************************************************)
C9_AsIfAlone ==
    \A p \in Callers :
        LET c == call[p]
        IN  /\ c.ret.err # Panic
            /\ (Done(c) /\ c.op \in {"Assign", "Upload", "Get", "Delete"}) =>
                  Returned(c) \in AloneOutcomes(c)
            /\ (c.op \in {"Get", "Delete"} /\ Len(c.reqs) = 2) =>
                  c.reqs[2].host \in
                      {c.got[1].body.locations[k] :
                          k \in 1..Len(c.got[1].body.locations)}

\* two Gets, both past their lookups of the same two replicas, went to
\* different replicas; one has returned while the other waits
C9_Witness ==
    /\ call[1].op = "Get"
    /\ call[2].op = "Get"
    /\ Done(call[1])
    /\ call[1].ret.err = Nil
    /\ call[2].pc = "transfer"
    /\ call[1].reqs[2].host = VolB
    /\ call[2].reqs[2].host = VolA

(***************************************************************************)
(* C10: Get writes to the sink only after the volume server answered the   *)
(* GET with 200 -- a filename that does not decode, a failed lookup, a     *)
(* request that failed or a status other than 200 leave the sink as it     *)
(* was; Get returns nil headers with the error when it fails before a      *)
(* volume server answered, and the headers of the volume server's          *)
(* response, with an error, when that response has a status other than     *)
(* 200 or the copy of its body fails.                                      *)
(***************************************************************************)
C10_SinkAndHeaders ==
    \A p \in Callers :
        LET c        == call[p]
            answered == Len(c.got) = 2 /\ IsResp(c.got[2])
        IN  c.op = "Get" =>
              /\ c.sink # c.arg.w => (answered /\ c.got[2].status = StatusOK)
              /\ (Done(c) /\ ~answered) =>
                    (c.ret.err # Nil /\ c.ret.hdr = "nil" /\ c.sink = c.arg.w)
              /\ (Done(c) /\ answered) =>
                    /\ c.ret.hdr = c.got[2].header
                    /\ c.ret.hdr # "nil"
                    /\ c.got[2].status # StatusOK =>
                          (c.ret.err # Nil /\ c.sink = c.arg.w)
                    /\ c.got[2].status = StatusOK =>
                          /\ c.ret.err \in {Nil, ErrCopy}
                          /\ c.ret.err = Nil => c.sink = c.arg.w \o c.got[2].body.data
                          /\ \E n \in 0..Len(c.got[2].body.data) :
                                c.sink = c.arg.w \o SubSeq(c.got[2].body.data, 1, n)

\* a Get answered 404 by the volume server: the headers come back with
\* NotFound and the sink still holds what it held
C10_Witness ==
    \E p \in Callers :
        /\ call[p].op = "Get"
        /\ Done(call[p])
        /\ Len(call[p].got) = 2
        /\ call[p].got[2].status = StatusNotFound
        /\ call[p].ret = [err |-> ErrorNotFound, r |-> NilResult, hdr |-> VolumeHeader]
        /\ call[p].arg.w = <<120>>
        /\ call[p].sink = <<120>>

=============================================================================
